---- MODULE Spec2Model ----
(***************************************************************************)
(* Model of coordinate_descent_attention.py: the coordinate-descent        *)
(* solver coor_descent, the mask construction and dispatch of              *)
(* Attention.forward, and the control flow of Transformer.forward.         *)
(*                                                                         *)
(* Numbers.  A tensor element is an integer n standing for n / Scale, in   *)
(* the finite range -FMax .. FMax, or one of the three special values      *)
(* PInf, NInf, NaN.  Arithmetic follows the IEEE rules the tensor runtime  *)
(* follows: a result beyond the finite range is an infinity, Inf - Inf and *)
(* 0 * Inf are NaN, NaN propagates, exp of a very negative number          *)
(* underflows to exactly 0.  The format is fixed point, so the resolution  *)
(* is uniform (1 / Scale) where a float's is relative.                     *)
(*                                                                         *)
(* Tensors.  coor_descent reduces over the key axis only (dim = -1); every *)
(* other index (batch, head, query) is carried along elementwise.  The     *)
(* solver's frame therefore holds one query row, a sequence over the keys, *)
(* and Attention.forward applies the solver to every row of its matrix.    *)
(***************************************************************************)
EXTENDS Integers, Sequences, FiniteSets, TLC

(* ------------------------------ bounds -------------------------------- *)

NumKeys == 2        \* keys per row in a direct call of coor_descent
MaxIters == 3       \* largest n_iters a direct call is given

(* --------------------------- number format ---------------------------- *)

Scale == 1000
FMax == 1000000
Tiny == 1

PInf == FMax + 1
NInf == -(FMax + 1)
NaN == FMax + 2

IsNaN(x) == x = NaN
IsFinite(x) == x >= -FMax /\ x <= FMax
Abs(x) == IF x < 0 THEN -x ELSE x
Sign(x) == IF x > 0 THEN 1 ELSE IF x < 0 THEN -1 ELSE 0
Max2(x, y) == IF x >= y THEN x ELSE y

\* n / d rounded to the nearest integer (halves up), d > 0
RoundDiv(n, d) == (n + d \div 2) \div d

\* an exact result brought into the format: overflow gives an infinity
Fit(r) == IF r > FMax THEN PInf ELSE IF r < -FMax THEN NInf ELSE r

Neg(x) == IF IsNaN(x) THEN NaN ELSE -x

Add(x, y) ==
    IF IsNaN(x) \/ IsNaN(y) THEN NaN
    ELSE IF ~IsFinite(x) THEN (IF ~IsFinite(y) /\ y # x THEN NaN ELSE x)
    ELSE IF ~IsFinite(y) THEN y
    ELSE Fit(x + y)

Sub(x, y) == Add(x, Neg(y))

Mul(x, y) ==
    IF IsNaN(x) \/ IsNaN(y) THEN NaN
    ELSE IF ~IsFinite(x) \/ ~IsFinite(y)
         THEN (IF x = 0 \/ y = 0 THEN NaN
               ELSE IF Sign(x) * Sign(y) > 0 THEN PInf ELSE NInf)
    ELSE IF x = 0 \/ y = 0 THEN 0
    ELSE IF Abs(y) > (FMax * Scale) \div Abs(x)
         THEN (IF Sign(x) * Sign(y) > 0 THEN PInf ELSE NInf)
    ELSE Fit(RoundDiv(x * y, Scale))

Div(x, y) ==
    IF IsNaN(x) \/ IsNaN(y) THEN NaN
    ELSE IF ~IsFinite(x)
         THEN (IF ~IsFinite(y) THEN NaN ELSE IF y < 0 THEN Neg(x) ELSE x)
    ELSE IF ~IsFinite(y) THEN 0
    ELSE IF y = 0 THEN (IF x = 0 THEN NaN ELSE IF x > 0 THEN PInf ELSE NInf)
    ELSE Fit(RoundDiv(x * Scale * Sign(y), Abs(y)))

\* F.relu: max(x, 0), NaN kept
Relu(x) == IF IsNaN(x) THEN NaN ELSE IF x > 0 THEN x ELSE 0

\* exp and log work at the internal precision 1 / Prec.  ExpTable[i + 1]
\* is Prec * exp(-(2^i) / Scale): exp(-t / Scale) is the product of the
\* entries at the set bits of t.
Prec == 32768
ExpTable == << 32735, 32703, 32637, 32507, 32248, 31736, 30737,
               28831, 25367, 19638, 11769, 4227, 545 >>
NBits == Len(ExpTable)
Ln2 == 693

RECURSIVE ExpBits(_, _, _)
ExpBits(t, i, acc) ==
    IF i >= NBits THEN acc
    ELSE ExpBits(t, i + 1,
                 IF (t \div (2 ^ i)) % 2 = 1
                 THEN RoundDiv(acc * ExpTable[i + 1], Prec) ELSE acc)

\* Scale * exp(-t / Scale) for t >= 0; 0 once the result is below 1 / Scale
ExpNeg(t) ==
    IF t >= 2 ^ NBits THEN 0 ELSE RoundDiv(ExpBits(t, 0, Prec) * Scale, Prec)

Exp(x) ==
    IF IsNaN(x) THEN NaN
    ELSE IF x = PInf THEN PInf
    ELSE IF x = NInf THEN 0
    ELSE IF x <= 0 THEN ExpNeg(-x)
    ELSE IF ExpNeg(x) = 0 THEN PInf
    ELSE Fit(RoundDiv(Scale * Scale, ExpNeg(x)))

\* Scale * ln(m / Prec) for Prec <= m < 2 * Prec: the largest t (bit by bit
\* from the top) with m * exp(-t / Scale) >= 1
RECURSIVE LnBits(_, _, _)
LnBits(acc, i, t) ==
    IF i < 0 THEN t
    ELSE LET c == RoundDiv(acc * ExpTable[i + 1], Prec)
         IN  IF c >= Prec THEN LnBits(c, i - 1, t + 2 ^ i)
             ELSE LnBits(acc, i - 1, t)

RECURSIVE Log2Floor(_, _)
Log2Floor(y, e) == IF y >= 2 * Scale * (2 ^ e) THEN Log2Floor(y, e + 1) ELSE e

RECURSIVE Log(_)
Log(y) ==
    IF IsNaN(y) THEN NaN
    ELSE IF y = PInf THEN PInf
    ELSE IF y < 0 THEN NaN
    ELSE IF y = 0 THEN NInf
    ELSE IF y < Scale THEN Neg(Log(RoundDiv(Scale * Scale, y)))
    ELSE LET e == Log2Floor(y, 0)
             m == y \div (2 ^ e)
         IN  e * Ln2 + LnBits((m * Prec) \div Scale, NBits - 1, 0)

(* ----------------------------- row tensors ---------------------------- *)

RECURSIVE SumRow(_, _)
SumRow(r, n) == IF n = 0 THEN 0 ELSE Add(SumRow(r, n - 1), r[n])

RECURSIVE MaxRow(_, _)
MaxRow(r, n) == IF n = 1 THEN r[1] ELSE Max2(MaxRow(r, n - 1), r[n])

HasNaN(r) == \E j \in DOMAIN r : IsNaN(r[j])

\* t.logsumexp(dim = -1): log(sum(exp(t - m))) + m with m the row maximum,
\* taken as 0 when the maximum is infinite
LogSumExp(r) ==
    IF HasNaN(r) THEN NaN
    ELSE LET mx == MaxRow(r, Len(r))
             m == IF IsFinite(mx) THEN mx ELSE 0
             e == [j \in DOMAIN r |-> Exp(Sub(r[j], m))]
         IN  Add(Log(SumRow(e, Len(e))), m)

(* ------------------------- coor_descent, pure ------------------------- *)

NoMask == << >>
Unassigned == << >>
exists(val) == val # << >>

\* mask_value = -torch.finfo(s.dtype).max
MaskValue == Neg(FMax)

\* log(t, eps = 1e-20): torch.log(t.clamp(min = eps)); the clamp's floor is
\* the smallest positive number of the format
log(t) == Log(IF IsNaN(t) THEN NaN ELSE Max2(t, Tiny))

\* mutant of Constant: the target k is left out, as if it were always 1
ConstantForUnitMass(eps, k) == Mul(eps, log(Scale))

\* constant = eps * log(k)
Constant(eps, k) == Mul(eps, log(k))

\* b = -clamp_fn(s), clamp_fn = F.relu
InitB(s) == [j \in DOMAIN s |-> Neg(Relu(s[j]))]

\* s.masked_fill(~mask, mask_value): a new tensor, mask_value where the mask
\* is False
MaskedFill(s, mask) == [j \in DOMAIN s |-> IF mask[j] THEN s[j] ELSE MaskValue]

\* a = constant - eps * ((s + b) / eps).logsumexp(dim = -1, keepdim = True)
UpdateA(s, b, k, eps) ==
    Sub(Constant(eps, k),
        Mul(eps, LogSumExp([j \in DOMAIN s |-> Div(Add(s[j], b[j]), eps)])))

\* b = -clamp_fn(s + a)
UpdateB(s, a) == [j \in DOMAIN s |-> Neg(Relu(Add(s[j], a)))]

\* scores = ((s + a + b) / eps).exp()
Weights(s, a, b, eps) ==
    [j \in DOMAIN s |-> Exp(Div(Add(Add(s[j], a), b[j]), eps))]

\* mutant of LoopContinues: one pass too many
LoopContinuesOnceMore(it, n_iters) == it <= n_iters

\* for _ in range(n_iters): true while another pass is due
LoopContinues(it, n_iters) == it < n_iters

\* the loop of a whole call: the locals after the passes still due
RECURSIVE Passes(_, _, _, _, _, _, _, _)
Passes(s, a, b, it, n_iters, k, eps, mask) ==
    IF ~LoopContinues(it, n_iters) THEN [s |-> s, a |-> a, b |-> b]
    ELSE LET s1 == IF exists(mask) THEN MaskedFill(s, mask) ELSE s
             a1 == UpdateA(s1, b, k, eps)
             b1 == UpdateB(s1, a1)
         IN  Passes(s1, << a1 >>, b1, it + 1, n_iters, k, eps, mask)

\* a whole call of coor_descent: err is the UnboundLocalError the last
\* statement raises when no pass assigned a
CoorDescent(s, n_iters, k, eps, mask) ==
    LET st == Passes(s, Unassigned, InitB(s), 0, n_iters, k, eps, mask)
        sf == IF exists(mask) THEN MaskedFill(st.s, mask) ELSE st.s
    IN  IF ~exists(st.a) THEN [err |-> TRUE, w |-> << >>]
        ELSE [err |-> FALSE, w |-> Weights(sf, st.a[1], st.b, eps)]

(* ------------------------ coor_descent, stepwise ---------------------- *)

VARIABLES
    pc,         \* the statement of coor_descent about to run, or idle/done/error
    scores,     \* the caller's score tensor (the object passed as s)
    snapshot,   \* what the caller's tensor held when the call began
    s_own,      \* the tensor the call created and bound to the local name s
    s_is_arg,   \* TRUE while the local name s is still the caller's tensor
    args,       \* n_iters, k, eps, mask of the running call
    a,          \* the row normalizer: << >> until assigned, then << value >>
    b,          \* the penalty row
    it,         \* passes started
    out,        \* the returned weights, << >> before the return
    trace,      \* the tensor statements the call has run, in order
    reentered,  \* TRUE once a call has followed an earlier call
    att,        \* the frame of Attention.forward
    tf          \* the frame of Transformer.forward

vars == << pc, scores, snapshot, s_own, s_is_arg, args, a, b, it, out,
           trace, reentered, att, tf >>
solver_vars == << pc, scores, snapshot, s_own, s_is_arg, args, a, b, it, out,
                  trace, reentered >>

ScoreVals == {-(Scale \div 10), Scale \div 5}
KVals == {Scale, 2 * Scale}
EpsDefault == Scale \div 10
Keys == 1 .. NumKeys

SolverInputs ==
    [s : [Keys -> ScoreVals],
     mask : {NoMask} \cup [Keys -> BOOLEAN],
     n_iters : (-1) .. MaxIters,
     k : KVals,
     eps : {EpsDefault}]

\* the tensor the local name s denotes
CurS == IF s_is_arg THEN scores ELSE s_own

\* mutant of Rebind: masked_fill_ in place of masked_fill, the tensor the
\* local name denotes is overwritten
RebindInPlace(arg, own, is_arg, mask) ==
    IF is_arg
    THEN [arg |-> MaskedFill(arg, mask), own |-> own, is_arg |-> TRUE]
    ELSE [arg |-> arg, own |-> MaskedFill(own, mask), is_arg |-> FALSE]

\* mutant of Rebind: the result of masked_fill is not assigned to s
RebindDropped(arg, own, is_arg, mask) ==
    [arg |-> arg, own |-> own, is_arg |-> is_arg]

\* s = s.masked_fill(~mask, mask_value): the local name is rebound to the
\* new tensor; the tensor it named before is left as it was
Rebind(arg, own, is_arg, mask) ==
    [arg |-> arg,
     own |-> MaskedFill(IF is_arg THEN arg ELSE own, mask),
     is_arg |-> FALSE]

\* mutant of EntryA: a is given a value before the loop
EntryAZero == << 0 >>

\* a has no value before the loop
EntryA == Unassigned

SolverIdle ==
    /\ pc = "idle"
    /\ scores = << >>
    /\ snapshot = << >>
    /\ s_own = << >>
    /\ s_is_arg = TRUE
    /\ args = [n_iters |-> 0, k |-> Scale, eps |-> EpsDefault, mask |-> NoMask]
    /\ a = Unassigned
    /\ b = << >>
    /\ it = 0
    /\ out = << >>
    /\ trace = << >>
    /\ reentered = FALSE

\* mutant of Call: the penalty row of the previous call is kept
CallKeepingDuals(inp) ==
    /\ pc \in {"idle", "done", "error"}
    /\ pc' = "for"
    /\ scores' = inp.s
    /\ snapshot' = inp.s
    /\ s_own' = << >>
    /\ s_is_arg' = TRUE
    /\ args' = [n_iters |-> inp.n_iters, k |-> inp.k, eps |-> inp.eps,
                mask |-> inp.mask]
    /\ a' = Unassigned
    /\ b' = IF pc = "idle" THEN InitB(inp.s) ELSE b
    /\ it' = 0
    /\ out' = << >>
    /\ trace' = << >>
    /\ reentered' = (pc # "idle")
    /\ UNCHANGED << att, tf >>

\* def coor_descent(s, *, n_iters, k, eps, clamp_fn, mask) up to b = -clamp_fn(s)
Call(inp) ==
    /\ pc \in {"idle", "done", "error"}
    /\ pc' = "for"
    /\ scores' = inp.s
    /\ snapshot' = inp.s
    /\ s_own' = << >>
    /\ s_is_arg' = TRUE
    /\ args' = [n_iters |-> inp.n_iters, k |-> inp.k, eps |-> inp.eps,
                mask |-> inp.mask]
    /\ a' = EntryA
    /\ b' = InitB(inp.s)
    /\ it' = 0
    /\ out' = << >>
    /\ trace' = << >>
    /\ reentered' = (pc # "idle")
    /\ UNCHANGED << att, tf >>

\* for _ in range(n_iters):
ForStep ==
    /\ pc = "for"
    /\ IF LoopContinues(it, args.n_iters)
       THEN pc' = "mask" /\ it' = it + 1
       ELSE pc' = "final_mask" /\ it' = it
    /\ UNCHANGED << scores, snapshot, s_own, s_is_arg, args, a, b, out,
                    trace, reentered, att, tf >>

\* if exists(mask): s = s.masked_fill(~mask, mask_value)     (in the loop)
MaskStep ==
    /\ pc = "mask"
    /\ pc' = "a"
    /\ IF exists(args.mask)
       THEN LET r == Rebind(scores, s_own, s_is_arg, args.mask)
            IN  /\ scores' = r.arg
                /\ s_own' = r.own
                /\ s_is_arg' = r.is_arg
                /\ trace' = Append(trace, "mask")
       ELSE UNCHANGED << scores, s_own, s_is_arg, trace >>
    /\ UNCHANGED << snapshot, args, a, b, it, out, reentered, att, tf >>

\* a = constant - eps * ((s + b) / eps).logsumexp(dim = -1, keepdim = True)
AStep ==
    /\ pc = "a"
    /\ pc' = "b"
    /\ a' = << UpdateA(CurS, b, args.k, args.eps) >>
    /\ trace' = Append(trace, "a")
    /\ UNCHANGED << scores, snapshot, s_own, s_is_arg, args, b, it, out,
                    reentered, att, tf >>

\* b = -clamp_fn(s + a)
BStep ==
    /\ pc = "b"
    /\ pc' = "for"
    /\ b' = UpdateB(CurS, a[1])
    /\ trace' = Append(trace, "b")
    /\ UNCHANGED << scores, snapshot, s_own, s_is_arg, args, a, it, out,
                    reentered, att, tf >>

\* if exists(mask): s = s.masked_fill(~mask, mask_value)     (after the loop)
FinalMaskStep ==
    /\ pc = "final_mask"
    /\ pc' = "scores"
    /\ IF exists(args.mask)
       THEN LET r == Rebind(scores, s_own, s_is_arg, args.mask)
            IN  /\ scores' = r.arg
                /\ s_own' = r.own
                /\ s_is_arg' = r.is_arg
                /\ trace' = Append(trace, "final_mask")
       ELSE UNCHANGED << scores, s_own, s_is_arg, trace >>
    /\ UNCHANGED << snapshot, args, a, b, it, out, reentered, att, tf >>

\* scores = ((s + a + b) / eps).exp(); return scores
\* reading a before any pass assigned it raises UnboundLocalError
ScoresStep ==
    /\ pc = "scores"
    /\ IF exists(a)
       THEN /\ pc' = "done"
            /\ out' = Weights(CurS, a[1], b, args.eps)
            /\ trace' = Append(trace, "weights")
       ELSE /\ pc' = "error"
            /\ UNCHANGED << out, trace >>
    /\ UNCHANGED << scores, snapshot, s_own, s_is_arg, args, a, b, it,
                    reentered, att, tf >>

(* -------------------------- Attention.forward ------------------------- *)

\* The model runs one batch element and one head with dim_head = 1: a
\* query, key or value is one number per position.  The learned parameters
\* (the weights of to_qkv, the null key/value bank) and the normalised
\* input are drawn from small sets; the weight of to_out is fixed.

MaxN == 2           \* longest sequence Attention.forward is given
MaxNull == 1        \* largest attn_null_kv

HiddenVals == {-Scale, Scale}
WeightVals == {Scale \div 2, Scale}
NullVals == {0, Scale}
OutWeight == Scale \div 2

\* self.scale = dim_head ** -0.5, which is 1 for dim_head = 1
AttnScale == Scale

\* torch.ones((i, j), dtype = torch.bool)
Ones(i, j) == [r \in 1 .. i |-> [c \in 1 .. j |-> TRUE]]

\* m.triu(d): the entries on and above the d-th diagonal (column - row >= d)
\* are kept, the others cleared
Triu(m, d) ==
    [r \in DOMAIN m |-> [c \in DOMAIN m[r] |-> m[r][c] /\ (c - r >= d)]]

\* mutant of CausalMask: the offset of the null keys is forgotten
CausalMaskNoOffset(i, j) == Triu(Ones(i, j), 1)

\* mutant of CausalMask: the diagonal is one too low, a query's own key is
\* disallowed
CausalMaskOwnExcluded(i, j) == Triu(Ones(i, j), j - i)

\* causal_mask = torch.ones((i, j), dtype = torch.bool).triu(j - i + 1)
CausalMask(i, j) == Triu(Ones(i, j), j - i + 1)

\* ~causal_mask
Not(m) == [r \in DOMAIN m |-> [c \in DOMAIN m[r] |-> ~m[r][c]]]

\* einsum('b h i d, b h j d -> b h i j', q, k) with d = 1
Similarity(q, k) ==
    [i \in DOMAIN q |-> [j \in DOMAIN k |-> Mul(q[i], k[j])]]

\* sim.masked_fill(causal_mask, -torch.finfo(sim.dtype).max): the fill goes
\* where the mask is True
FillWhere(row, mrow) ==
    [j \in DOMAIN row |-> IF mrow[j] THEN MaskValue ELSE row[j]]

\* row.softmax(dim = -1)
Softmax(row) ==
    IF HasNaN(row) THEN [j \in DOMAIN row |-> NaN]
    ELSE LET mx == MaxRow(row, Len(row))
             e == [j \in DOMAIN row |-> Exp(Sub(row[j], mx))]
             tot == SumRow(e, Len(e))
         IN  [j \in DOMAIN row |-> Div(e[j], tot)]

\* einsum('b h i j, b h j d -> b h i d', attn, v) with d = 1, for one row
Aggregate(w, v) == SumRow([j \in DOMAIN w |-> Mul(w[j], v[j])], Len(w))

AttIdle ==
    [pc |-> "idle", n |-> 0, null_kv |-> 0, use_coor_descent |-> FALSE,
     iters |-> 0, sparsity_k |-> Scale, eps |-> EpsDefault,
     w_qkv |-> << >>, nk |-> << >>, nv |-> << >>, w_out |-> Scale,
     q |-> << >>, k |-> << >>, v |-> << >>, sim |-> << >>,
     causal_mask |-> << >>, valid |-> << >>, attn |-> << >>, y |-> << >>]

AttnConfigs ==
    [null_kv : 0 .. MaxNull,
     use_coor_descent : BOOLEAN,
     w_qkv : [1 .. 3 -> WeightVals]]

\* self.to_qkv(x).chunk(3, dim = -1), rearranged: chunk c of the projection,
\* one number per position
Chunk(w_qkv, h, c) == [i \in DOMAIN h |-> Mul(w_qkv[c], h[i])]

\* Attention(...) and a call forward(x) on n positions, up to the
\* projection and the split into heads:
\* x = self.norm(x); q, k, v = self.to_qkv(x).chunk(3, dim = -1); rearrange
AttnProject ==
    /\ att.pc = "idle"
    /\ \E cfg \in AttnConfigs, n \in 1 .. MaxN :
        \E h \in [1 .. n -> HiddenVals],
           nk \in [1 .. cfg.null_kv -> NullVals],
           nv \in [1 .. cfg.null_kv -> NullVals] :
            att' = [AttIdle EXCEPT !.pc = "null_kv", !.n = n,
                                   !.null_kv = cfg.null_kv,
                                   !.use_coor_descent = cfg.use_coor_descent,
                                   !.iters = MaxIters,
                                   !.w_qkv = cfg.w_qkv, !.w_out = OutWeight,
                                   !.nk = nk, !.nv = nv,
                                   !.q = Chunk(cfg.w_qkv, h, 1),
                                   !.k = Chunk(cfg.w_qkv, h, 2),
                                   !.v = Chunk(cfg.w_qkv, h, 3)]
    /\ UNCHANGED << solver_vars, tf >>

\* if self.null_kv.numel() > 0: k = cat((nk, k)); v = cat((nv, v))
AttnNullKv ==
    /\ att.pc = "null_kv"
    /\ att' = IF 2 * att.null_kv > 0
              THEN [att EXCEPT !.pc = "sim", !.k = att.nk \o att.k,
                               !.v = att.nv \o att.v]
              ELSE [att EXCEPT !.pc = "sim"]
    /\ UNCHANGED << solver_vars, tf >>

\* q = q * self.scale; sim = einsum('b h i d, b h j d -> b h i j', q, k)
AttnSim ==
    /\ att.pc = "sim"
    /\ LET qs == [i \in DOMAIN att.q |-> Mul(att.q[i], AttnScale)]
       IN  att' = [att EXCEPT !.pc = "causal_mask", !.q = qs,
                              !.sim = Similarity(qs, att.k)]
    /\ UNCHANGED << solver_vars, tf >>

\* i, j = sim.shape[-2:]; causal_mask = torch.ones((i, j)).triu(j - i + 1)
AttnCausalMask ==
    /\ att.pc = "causal_mask"
    /\ att' = [att EXCEPT !.pc = "attend",
                          !.causal_mask = CausalMask(Len(att.sim), Len(att.sim[1]))]
    /\ UNCHANGED << solver_vars, tf >>

\* if self.use_coor_descent: attn = coor_descent(sim, n_iters, k = sparsity_k,
\*     eps, mask = ~causal_mask)
\* else: sim = sim.masked_fill(causal_mask, -max); attn = sim.softmax(dim = -1)
\* valid is the mask of the positions the normalisation may use
AttnAttend ==
    /\ att.pc = "attend"
    /\ LET valid == Not(att.causal_mask)
           cd == [i \in DOMAIN att.sim |->
                     CoorDescent(att.sim[i], att.iters, att.sparsity_k,
                                 att.eps, valid[i])]
       IN  IF att.use_coor_descent
           THEN IF \E i \in DOMAIN cd : cd[i].err
                THEN att' = [att EXCEPT !.pc = "error", !.valid = valid]
                ELSE att' = [att EXCEPT !.pc = "aggregate", !.valid = valid,
                                        !.attn = [i \in DOMAIN cd |-> cd[i].w]]
           ELSE LET filled == [i \in DOMAIN att.sim |->
                                  FillWhere(att.sim[i], att.causal_mask[i])]
                IN  att' = [att EXCEPT !.pc = "aggregate", !.valid = valid,
                                       !.sim = filled,
                                       !.attn = [i \in DOMAIN filled |->
                                                    Softmax(filled[i])]]
    /\ UNCHANGED << solver_vars, tf >>

\* out = einsum('b h i j, b h j d -> b h i d', attn, v); rearrange;
\* return self.to_out(out)
AttnAggregate ==
    /\ att.pc = "aggregate"
    /\ att' = [att EXCEPT !.pc = "returned",
                          !.y = [i \in DOMAIN att.attn |->
                                    Mul(Aggregate(att.attn[i], att.v), att.w_out)]]
    /\ UNCHANGED << solver_vars, tf >>

\* the caller calls forward again
AttnAgain ==
    /\ att.pc \in {"returned", "error"}
    /\ att' = AttIdle
    /\ UNCHANGED << solver_vars, tf >>

(* ------------------------- Transformer.forward ------------------------ *)

MaxSeqLen == 3      \* largest configured seq_len
MaxDepth == 2       \* largest depth

TfIdle ==
    [pc |-> "idle", seq_len |-> 0, depth |-> 0, n |-> 0, layer |-> 0,
     ran |-> << >>]

\* mutant of AssertHolds: the length check is missing
AssertDropped(n, seq_len) == TRUE

\* assert n <= self.seq_len
AssertHolds(n, seq_len) == n <= seq_len

\* Transformer(seq_len, depth, ...) and a call forward(x) on n tokens:
\* n, device = x.shape[-1], x.device
TfCall ==
    /\ tf.pc = "idle"
    /\ \E seq_len \in 1 .. MaxSeqLen, depth \in 0 .. MaxDepth,
          n \in 0 .. MaxSeqLen + 1 :
        tf' = [TfIdle EXCEPT !.pc = "assert", !.seq_len = seq_len,
                             !.depth = depth, !.n = n]
    /\ UNCHANGED << solver_vars, att >>

\* assert n <= self.seq_len
TfAssert ==
    /\ tf.pc = "assert"
    /\ tf' = IF AssertHolds(tf.n, tf.seq_len)
             THEN [tf EXCEPT !.pc = "token_emb"]
             ELSE [tf EXCEPT !.pc = "AssertionError"]
    /\ UNCHANGED << solver_vars, att >>

\* x = self.token_emb(x)
TfTokenEmb ==
    /\ tf.pc = "token_emb"
    /\ tf' = [tf EXCEPT !.pc = "pos_emb", !.ran = Append(tf.ran, "token_emb")]
    /\ UNCHANGED << solver_vars, att >>

\* x = x + self.pos_emb(torch.arange(n, device = device))
TfPosEmb ==
    /\ tf.pc = "pos_emb"
    /\ tf' = [tf EXCEPT !.pc = "layers", !.ran = Append(tf.ran, "pos_emb")]
    /\ UNCHANGED << solver_vars, att >>

\* for attn, ff in self.layers:
TfLayers ==
    /\ tf.pc = "layers"
    /\ tf' = IF tf.layer < tf.depth
             THEN [tf EXCEPT !.pc = "attn", !.layer = tf.layer + 1]
             ELSE [tf EXCEPT !.pc = "to_logits"]
    /\ UNCHANGED << solver_vars, att >>

\* x = attn(x) + x
TfAttn ==
    /\ tf.pc = "attn"
    /\ tf' = [tf EXCEPT !.pc = "ff", !.ran = Append(tf.ran, "attn")]
    /\ UNCHANGED << solver_vars, att >>

\* x = ff(x) + x
TfFeedForward ==
    /\ tf.pc = "ff"
    /\ tf' = [tf EXCEPT !.pc = "layers", !.ran = Append(tf.ran, "ff")]
    /\ UNCHANGED << solver_vars, att >>

\* return self.to_logits(x)
TfToLogits ==
    /\ tf.pc = "to_logits"
    /\ tf' = [tf EXCEPT !.pc = "returned", !.ran = Append(tf.ran, "to_logits")]
    /\ UNCHANGED << solver_vars, att >>

\* the caller calls forward again
TfAgain ==
    /\ tf.pc \in {"returned", "AssertionError"}
    /\ tf' = TfIdle
    /\ UNCHANGED << solver_vars, att >>

(* --------------------------- specifications --------------------------- *)

Init == SolverIdle /\ att = AttIdle /\ tf = TfIdle

\* direct calls of coor_descent
Next ==
    \/ \E inp \in SolverInputs : Call(inp)
    \/ ForStep
    \/ MaskStep
    \/ AStep
    \/ BStep
    \/ FinalMaskStep
    \/ ScoresStep

Spec == Init /\ [][Next]_vars

\* calls of Attention.forward
AttnNext ==
    \/ AttnProject
    \/ AttnNullKv
    \/ AttnSim
    \/ AttnCausalMask
    \/ AttnAttend
    \/ AttnAggregate
    \/ AttnAgain

AttnSpec == Init /\ [][AttnNext]_vars

\* calls of Transformer.forward
TfNext ==
    \/ TfCall
    \/ TfAssert
    \/ TfTokenEmb
    \/ TfPosEmb
    \/ TfLayers
    \/ TfAttn
    \/ TfFeedForward
    \/ TfToLogits
    \/ TfAgain

TfSpec == Init /\ [][TfNext]_vars

(* ------------------------- claims: coor_descent ----------------------- *)

IsValid(mask, j) == ~exists(mask) \/ mask[j]
NumValid(mask, n) == Cardinality({j \in 1 .. n : IsValid(mask, j)})
Returned == pc = "done"

\* total weight a row puts on its valid entries
Mass(w, mask) ==
    SumRow([j \in DOMAIN w |-> IF IsValid(mask, j) THEN w[j] ELSE 0], Len(w))

\* C1: in every returned weight row, each entry at a position where the mask
\* is False is exactly zero.
C1_MaskedEntriesAreZero ==
    (Returned /\ exists(args.mask)) =>
        \A j \in DOMAIN out : ~args.mask[j] => out[j] = 0

\* the same restricted to rows that keep at least one valid entry
C1_MaskedEntriesAreZeroInLiveRows ==
    (Returned /\ exists(args.mask) /\ NumValid(args.mask, Len(out)) >= 1) =>
        \A j \in DOMAIN out : ~args.mask[j] => out[j] = 0

\* the distance of a row's mass from a target, and the rounding allowance:
\* one unit of a is 1 / eps units of the exponent, so each weight carries a
\* relative error of about one percent
Dev(w, mask, target) == Abs(Mass(w, mask) - target)
Tol(target) == target \div 50

\* the locals one further pass would produce from the present ones
FurtherA == UpdateA(CurS, b, args.k, args.eps)
FurtherB == UpdateB(CurS, FurtherA)
FurtherOut == Weights(CurS, FurtherA, FurtherB, args.eps)
AtFixedPoint == FurtherA = a[1] /\ FurtherB = b

\* a returned row that can carry the mass k: some valid entries, at least k
\* of them (every weight is at most 1)
CanCarry ==
    /\ Returned
    /\ NumValid(args.mask, Len(out)) >= 1
    /\ args.k <= NumValid(args.mask, Len(out)) * Scale

\* the row mass moves towards target pass by pass and rests on it: a further
\* pass brings it no farther from target, and once a further pass changes
\* nothing it is target, up to rounding
Approaches(target) ==
    /\ Dev(FurtherOut, args.mask, target) <= Dev(out, args.mask, target) + Tol(target)
    /\ AtFixedPoint => Dev(out, args.mask, target) <= Tol(target)

\* C5 as stated: each row's mass over its valid entries converges to 1,
\* whatever sparsity target k the caller supplies.
C5_MassConvergesToOne == CanCarry => Approaches(Scale)

\* C5 amended: each row's mass over its valid entries converges to the
\* sparsity target k the caller supplies (to 1 when k = 1), for rows with at
\* least k valid entries.
C5_MassConvergesToK == CanCarry => Approaches(args.k)

C5_Witness ==
    /\ CanCarry
    /\ AtFixedPoint
    /\ args.k = 2 * Scale
    /\ exists(args.mask)
    /\ Dev(out, args.mask, args.k) <= Tol(args.k)

\* C6: the caller's score tensor holds, throughout the call and after it,
\* the values it held when the call began.
C6_CallerTensorUnchanged == pc # "idle" => scores = snapshot

C6_Witness ==
    /\ Returned
    /\ exists(args.mask)
    /\ ~s_is_arg
    /\ s_own # scores

\* C7: what a call returns (or that it raises) is the function CoorDescent of
\* its own arguments, whatever calls came before it.
C7_OutputDependsOnArgumentsOnly ==
    pc \in {"done", "error"} =>
        LET r == CoorDescent(snapshot, args.n_iters, args.k, args.eps, args.mask)
        IN  /\ r.err = (pc = "error")
            /\ r.w = out

C7_Witness ==
    /\ Returned
    /\ reentered
    /\ args.n_iters >= 2
    /\ b # InitB(scores)

\* the tensor statements of a whole call, in order: n_iters passes of (mask,
\* a, b), then the final mask and the weights; the mask statements only run
\* when a mask was given
OnePass(mask) == IF exists(mask) THEN << "mask", "a", "b" >> ELSE << "a", "b" >>
Closing(mask) == IF exists(mask) THEN << "final_mask", "weights" >> ELSE << "weights" >>

RECURSIVE Repeat(_, _)
Repeat(seq, n) == IF n <= 0 THEN << >> ELSE seq \o Repeat(seq, n - 1)

IsPrefix(p, q) == Len(p) <= Len(q) /\ SubSeq(q, 1, Len(p)) = p

Running == pc \in {"for", "mask", "a", "b", "final_mask", "scores"}

\* the statements a running call still has to run: four per pass not yet
\* started (for, mask, a, b), the rest of the pass in progress, and the
\* three that close the call (the for that ends the loop, final mask, weights)
StatementsLeft ==
    LET due == IF args.n_iters > it THEN 4 * (args.n_iters - it) ELSE 0
    IN  CASE pc = "for" -> due + 3
          [] pc = "mask" -> due + 6
          [] pc = "a" -> due + 5
          [] pc = "b" -> due + 4
          [] pc = "final_mask" -> 2
          [] pc = "scores" -> 1
          [] OTHER -> 0

\* what a call with n_iters >= 1 has run so far is the beginning of its whole
\* sequence of statements, and all of it once the call has returned
C8_OnTrack ==
    args.n_iters >= 1 =>
        LET whole == Repeat(OnePass(args.mask), args.n_iters) \o Closing(args.mask)
        IN  /\ it <= args.n_iters
            /\ IsPrefix(trace, whole)
            /\ pc # "error"
            /\ Returned => (it = args.n_iters /\ trace = whole)

\* C8: a call with n_iters >= 1 runs exactly n_iters passes, each (mask, a,
\* b) in that order, then the final mask and the weight computation, and
\* returns: it never stops short, never runs a further pass, and every
\* statement it runs brings the return one statement nearer.
C8_ExactlyNItersPasses ==
    /\ []C8_OnTrack
    /\ [][(Running /\ args.n_iters >= 1) => StatementsLeft' = StatementsLeft - 1]_vars

C8_Witness ==
    /\ Returned
    /\ args.n_iters = MaxIters
    /\ exists(args.mask)
    /\ AtFixedPoint
    /\ Len(trace) = 3 * MaxIters + 2

\* coor_descent with lines 43-44 (the re-mask after the loop) removed
CoorDescentNoFinalMask(s, n_iters, k, eps, mask) ==
    LET st == Passes(s, Unassigned, InitB(s), 0, n_iters, k, eps, mask)
    IN  IF ~exists(st.a) THEN [err |-> TRUE, w |-> << >>]
        ELSE [err |-> FALSE, w |-> Weights(st.s, st.a[1], st.b, eps)]

\* C9 as stated: for some call with n_iters >= 1 and a mask, the output
\* differs from that of the same solver without the final re-mask.
C9_FinalRemaskChangesOutput ==
    \E inp \in SolverInputs :
        /\ inp.n_iters >= 1
        /\ exists(inp.mask)
        /\ CoorDescent(inp.s, inp.n_iters, inp.k, inp.eps, inp.mask)
             # CoorDescentNoFinalMask(inp.s, inp.n_iters, inp.k, inp.eps, inp.mask)

\* C9 amended: after at least one pass the final re-mask changes nothing:
\* the local s already is the masked tensor, and the weights computed from
\* it are those computed without the re-mask.
C9_FinalRemaskIsNoOp ==
    (pc = "final_mask" /\ exists(args.mask) /\ it >= 1) =>
        /\ MaskedFill(CurS, args.mask) = CurS
        /\ Weights(MaskedFill(CurS, args.mask), a[1], b, args.eps)
             = Weights(CurS, a[1], b, args.eps)

C9_Witness ==
    /\ pc = "final_mask"
    /\ it >= 1
    /\ exists(args.mask)
    /\ \E j \in DOMAIN args.mask : ~args.mask[j]
    /\ CurS # scores

\* C10: a call with n_iters <= 0 runs no pass, leaves a unassigned and ends
\* in an error instead of returning weights; weights are returned only after
\* at least one pass.
C10_NoPassNoResult ==
    /\ (pc \in {"done", "error"} /\ args.n_iters <= 0) =>
           (pc = "error" /\ it = 0 /\ ~exists(a) /\ ~exists(out))
    /\ (pc = "scores" /\ args.n_iters <= 0) => ~exists(a)
    /\ Returned => (it >= 1 /\ exists(a) /\ exists(out))

C10_Witness ==
    /\ pc = "error"
    /\ args.n_iters = -1
    /\ exists(args.mask)
    /\ ~exists(a)

(* ----------------------- claims: Attention.forward -------------------- *)

MaskBuilt == att.pc \in {"attend", "aggregate", "returned"}
Attended == att.pc \in {"aggregate", "returned"}
KeyLen == att.n + att.null_kv

\* C2: the causal mask has one row per query and one column per key (null
\* slots first), and its entry (i, j) is True exactly when
\* j > i + (key_len - query_len).
C2_CausalMaskEntries ==
    MaskBuilt =>
        /\ DOMAIN att.causal_mask = 1 .. att.n
        /\ \A i \in 1 .. att.n :
            /\ DOMAIN att.causal_mask[i] = 1 .. KeyLen
            /\ \A j \in 1 .. KeyLen :
                att.causal_mask[i][j] <=> (j > i + (KeyLen - att.n))

C2_Witness ==
    /\ MaskBuilt
    /\ att.n = MaxN
    /\ att.null_kv = MaxNull
    /\ att.causal_mask[1][KeyLen]
    /\ ~att.causal_mask[1][att.null_kv + 1]

\* C3: the validity mask given to the normalisation allows, for every query
\* i, every null key position and the key at the query's own position, so no
\* row is entirely disallowed.
C3_NullAndOwnPositionsValid ==
    Attended =>
        \A i \in 1 .. att.n :
            /\ \A j \in 1 .. att.null_kv : att.valid[i][j]
            /\ att.valid[i][att.null_kv + i]
            /\ \E j \in 1 .. KeyLen : att.valid[i][j]

C3_Witness ==
    /\ Attended
    /\ att.use_coor_descent
    /\ att.n = MaxN
    /\ att.null_kv = MaxNull
    /\ \E j \in 1 .. KeyLen : ~att.valid[1][j]

(* ---------------------- claims: Transformer.forward ------------------- *)

WholeForward(depth) ==
    << "token_emb", "pos_emb" >> \o Repeat(<< "attn", "ff" >>, depth)
        \o << "to_logits" >>

\* C4: a call with more tokens than seq_len fails at the assertion before
\* any embedding, attention, feed-forward or logits layer has run; a call
\* with at most seq_len tokens passes the assertion and runs the embeddings,
\* every layer's attention and feed-forward in order, and the logits head.
C4_TooLongFailsBeforeAnyLayer ==
    /\ tf.n > tf.seq_len =>
           (tf.pc \in {"assert", "AssertionError"} /\ tf.ran = << >>)
    /\ tf.pc = "AssertionError" => tf.n > tf.seq_len
    /\ (tf.pc # "idle" /\ tf.n <= tf.seq_len) =>
           (tf.pc # "AssertionError" /\ IsPrefix(tf.ran, WholeForward(tf.depth)))
    /\ tf.pc = "returned" => tf.ran = WholeForward(tf.depth)

C4_Witness ==
    /\ tf.pc = "AssertionError"
    /\ tf.n = tf.seq_len + 1
    /\ tf.depth = MaxDepth
    /\ tf.ran = << >>

====
